---- MODULE Spec2Model ----
(***************************************************************************)
(* Pipe Stress Infinity (psi): element code checking.                      *)
(*                                                                         *)
(* element_codecheck(points, loadcase, element, S) of                      *)
(* psi/solvers/codecheck.py as a state machine over the result matrix S    *)
(* and the stress types of the primary load cases.                         *)
(***************************************************************************)
EXTENDS Integers, Sequences, FiniteSets, TLC

(***************************************************************************)
(* Exact arithmetic.  A stress or a ratio is a real number; the ones the   *)
(* code check produces are integers, square roots of integers (srss) and   *)
(* quotients of those by an integer.  Each is written sgn * sqrt(num/den)  *)
(* with num/den in lowest terms, so equal numbers are equal records.       *)
(***************************************************************************)
Abs(x) == IF x < 0 THEN -x ELSE x

Sign(x) == IF x > 0 THEN 1 ELSE IF x < 0 THEN -1 ELSE 0

RECURSIVE Gcd(_, _)
Gcd(a, b) == IF b = 0 THEN a ELSE Gcd(b, a % b)

Zero == [sgn |-> 0, num |-> 0, den |-> 1]

\* the number sgn * sqrt(p / q), q > 0
Real(s, p, q) ==
    IF s = 0 \/ p = 0 THEN Zero
    ELSE LET g == Gcd(p, q) IN [sgn |-> s, num |-> p \div g, den |-> q \div g]

\* an integer as a real
Num(k) == Real(Sign(k), k * k, 1)

\* math.sqrt(n) of a non-negative integer n
Sqrt(n) == Real(1, n, 1)

\* x / a for a real x and a non-zero integer a
Quot(x, a) == Real(x.sgn * Sign(a), x.num, x.den * a * a)

\* x > y on reals
Gt(x, y) ==
    IF x.sgn # y.sgn THEN x.sgn > y.sgn
    ELSE IF x.sgn = 1 THEN x.num * y.den > y.num * x.den
    ELSE IF x.sgn = -1 THEN x.num * y.den < y.num * x.den
    ELSE FALSE

(***************************************************************************)
(* Sequences of integers: sum, max, min and map as the builtins compute    *)
(* them.                                                                   *)
(***************************************************************************)
RECURSIVE Sum(_)
Sum(s) == IF s = <<>> THEN 0 ELSE Head(s) + Sum(Tail(s))

RECURSIVE Max(_)
Max(s) ==
    IF Len(s) = 1 THEN s[1]
    ELSE LET m == Max(Tail(s)) IN IF m > s[1] THEN m ELSE s[1]

RECURSIVE Min(_)
Min(s) ==
    IF Len(s) = 1 THEN s[1]
    ELSE LET m == Min(Tail(s)) IN IF m < s[1] THEN m ELSE s[1]

Squares(s) == [k \in 1..Len(s) |-> s[k] * s[k]]

Absolutes(s) == [k \in 1..Len(s) |-> Abs(s[k])]

(***************************************************************************)
(* The piping model handed to the code check.                              *)
(***************************************************************************)
\* number of degrees of freedom per point
ndof == 6

\* the ordered sequence of all points of the model
points == <<"P1", "P2", "P3">>

\* list.index(x): zero-based position of the first occurrence
Index(seq, x) == (CHOOSE k \in 1..Len(seq) : seq[k] = x /\ \A m \in 1..(k - 1) : seq[m] # x) - 1

\* elements (runs) between two distinct points; od stands for the section,
\* sif for the stress intensification attached at each end
Elements ==
    { [name |-> "E1", from_point |-> "P1", to_point |-> "P2", od |-> 1,
       sif |-> [p \in {"P1", "P2"} |-> IF p = "P2" THEN 2 ELSE 1]],
      [name |-> "E2", from_point |-> "P3", to_point |-> "P2", od |-> 2,
       sif |-> [p \in {"P3", "P2"} |-> 1]] }

\* primary load cases
LoadCaseNames == {"L1", "L2"}

\* stress types: sustained, expansion, operating
Stypes == {"sus", "exp", "ope"}

\* internal pressure of each primary load case
Pressure == [l \in LoadCaseNames |-> IF l = "L1" THEN 1 ELSE 2]

\* six force components (fx, fy, fz, mx, my, mz) at a point
Vec(fx, mx, my) == <<fx, 0, 0, mx, my, 0>>

\* column 0 of a force result table: ndof rows per point, in point order
Table(v1, v2, v3) == v1 \o v2 \o v3

\* force results the static solver may have left in the load cases
ForceTables ==
    { [l \in LoadCaseNames |->
          IF l = "L1" THEN Table(Vec(2, 1, 1), Vec(-4, 0, 1), Vec(3, 0, 0))
                      ELSE Table(Vec(-3, 0, 2), Vec(1, 2, 0), Vec(-3, 0, 2))],
      [l \in LoadCaseNames |->
          IF l = "L1" THEN Table(Vec(3, 0, 0), Vec(3, 0, 0), Vec(-7, 1, 0))
                      ELSE Table(Vec(-7, 1, 1), Vec(2, 0, 1), Vec(4, 0, 0))] }

VARIABLES
    S,          \* the result matrix: row (zero-based point index) -> ten columns
    stype,      \* stress type of each primary load case
    forces,     \* force result table of each primary load case
    broken,     \* (element, load case) pairs whose allowable cannot be computed
    ncalls,     \* number of element_codecheck calls made
    S0,         \* the result matrix as it was created
    touched,    \* points that were an end point of an evaluated element
    computed,   \* row -> the ratios the calls computed for that point
    failed,     \* some call ended in an error
    last,       \* the last call: its arguments, locals and outcome
    todo,       \* a set of calls still to make on S
    Sb,         \* a second result matrix, for the same calls in another order
    stypeb,     \* the stress types seen by the calls on Sb
    failedb,    \* some call on Sb ended in an error
    todob,      \* the calls still to make on Sb
    models,     \* app.models._objects: the open models, name -> model, in order
    activeModel,    \* app.models._active_object
    store,      \* the dictionaries of the App's containers and of each model
    bound,      \* kind -> whose dictionary app.<kind>._objects refers to
    nobj,       \* number of entity objects registered so far
    sifsOf,     \* element.sifs of each element
    activeElements, \* app.elements._active_objects
    reg,        \* the last registry operation: arguments, outcome, state before
    activeObject,   \* kind -> app.<kind>._active_object
    kept,       \* model -> its fields _active_point, ..., _active_report, _active_elements
    chosen      \* model -> the selections last made while it was the active model

\* the state of the entity registry
regVars == <<models, activeModel, store, bound, nobj, sifsOf, activeElements, reg,
             activeObject, kept, chosen>>

\* the state of the code check
checkVars == <<S, S0, stype, forces, broken, ncalls, touched, computed, failed, last,
               todo, Sb, stypeb, failedb, todob>>

vars == <<S, S0, stype, forces, broken, ncalls, touched, computed, failed, last,
          todo, Sb, stypeb, failedb, todob,
          models, activeModel, store, bound, nobj, sifsOf, activeElements, reg,
          activeObject, kept, chosen>>

\* a primary load case as the code formulas see it
LoadCase(l, st) == [name |-> l, stype |-> st[l], pres |-> Pressure[l]]

(***************************************************************************)
(* The code formulas element.code.* (B31.1 style), functions of the        *)
(* element, the load case and the six force components at a point.         *)
(***************************************************************************)
\* basic material allowable at temperature
Sh == 4

shoop(element, loadcase) == loadcase.pres * element.od

slp(element, loadcase) == loadcase.pres

sax(element, f) == f[1]

stor(element, f) == f[4]

sifi(element, point) == IF point \in DOMAIN element.sif THEN element.sif[point] ELSE 1

sifo(element, point) == IF point \in DOMAIN element.sif THEN element.sif[point] ELSE 1

slb(element, point, f) == sifi(element, point) * (Abs(f[5]) + Abs(f[6]))

sl(element, loadcase, point, f) ==
    IF loadcase.stype = "sus"
    THEN sax(element, f) + slp(element, loadcase) + slb(element, point, f)
    ELSE IF loadcase.stype = "exp"
    THEN slb(element, point, f) + 2 * Abs(stor(element, f))
    ELSE 0

\* sallow raises when the element's material has no allowable for the load case
sallowRaises(element, loadcase, brk) == <<element.name, loadcase.name>> \in brk

sallow(element, loadcase, f) ==
    IF loadcase.stype = "sus" THEN Sh
    ELSE IF loadcase.stype = "exp" THEN Sh - Abs(sax(element, f))
    ELSE 0

(***************************************************************************)
(* element_codecheck, step by step.                                        *)
(***************************************************************************)
\* results[idx*ndof : idx*ndof + ndof, 0]
Slice(results, idx) == SubSeq(results, idx * ndof + 1, idx * ndof + ndof)

\* what a call leaves behind: the exception it ended with ("none" for a
\* normal return), the stress types, the per-constituent lists and the two
\* tuples (node i, node j) it offers to S
Outcome(exc, st, lists, rows) == [exc |-> exc, stype |-> st, lists |-> lists, rows |-> rows]

\* sratioi = sli / sallowi; sratioj = slj / sallowj, both 0 on ZeroDivisionError
Ratios(sli, slj, sallowi, sallowj) ==
    IF sallowi = 0 \/ sallowj = 0 THEN <<Zero, Zero>>
    ELSE <<Quot(sli, sallowi), Quot(slj, sallowj)>>

\* the tuples (shoop, sax, stor, slp, slb, sl, sifi, sifo, sallow, sratio)
\* of node i and node j
Rows(loc, sallowi, sallowj) ==
    LET r == Ratios(loc.sli, loc.slj, sallowi, sallowj) IN
    << <<loc.shoop, loc.saxi, loc.stori, loc.slp, loc.slbi, loc.sli,
         loc.sifi, loc.sifo, Num(sallowi), r[1]>>,
       <<loc.shoop, loc.saxj, loc.storj, loc.slp, loc.slbj, loc.slj,
         loc.sifi, loc.sifo, Num(sallowj), r[2]>> >>

\* the isinstance(loadcase, LoadCase) branch
PrimaryCheck(element, case, st, frc, brk) ==
    LET idxi == Index(points, element.from_point)
        idxj == Index(points, element.to_point)
        loadcase == LoadCase(case.name, st)
        fori == Slice(frc[case.name], idxi)
        forj == Slice(frc[case.name], idxj)
        loc == [shoop |-> Num(shoop(element, loadcase)),
                slp   |-> Num(slp(element, loadcase)),
                saxi  |-> Num(sax(element, fori)),
                saxj  |-> Num(sax(element, forj)),
                stori |-> Num(stor(element, fori)),
                storj |-> Num(stor(element, forj)),
                slbi  |-> Num(slb(element, element.from_point, fori)),
                slbj  |-> Num(slb(element, element.to_point, forj)),
                sli   |-> Num(sl(element, loadcase, element.from_point, fori)),
                slj   |-> Num(sl(element, loadcase, element.to_point, forj)),
                sifi  |-> Num(sifi(element, element.from_point)),
                sifo  |-> Num(sifo(element, element.to_point))]
    IN  IF sallowRaises(element, loadcase, brk) THEN Outcome("CodeError", st, <<>>, <<>>)
        ELSE Outcome("none", st, <<>>,
                     Rows(loc, sallow(element, loadcase, fori),
                               sallow(element, loadcase, forj)))

\* the per-constituent lists of the LoadComb branch
Quantities == {"shoop", "slp", "saxi", "saxj", "stori", "storj", "slbi", "slbj", "sli", "slj"}

\* the combination methods the code dispatches on
Handled == {"scaler", "algebraic", "srss", "abs", "signmax", "signmin"}

\* zip_longest(factors, loadcases, fillvalue=1): the factor paired with constituent k
Factor(loadcomb, k) == IF k <= Len(loadcomb.factors) THEN loadcomb.factors[k] ELSE 1

\* the value appended to the list of quantity q for constituent k
Entry(q, element, loadcomb, k, st, frc) ==
    LET loadcase == LoadCase(loadcomb.loadcases[k], st)
        factor == Factor(loadcomb, k)
        fori == Slice(frc[loadcase.name], Index(points, element.from_point))
        forj == Slice(frc[loadcase.name], Index(points, element.to_point))
    IN  CASE q = "shoop" -> factor * shoop(element, loadcase)
          [] q = "slp"   -> factor * slp(element, loadcase)
          [] q = "saxi"  -> factor * sax(element, fori)
          [] q = "saxj"  -> factor * sax(element, forj)
          [] q = "stori" -> factor * stor(element, fori)
          [] q = "storj" -> factor * stor(element, forj)
          [] q = "slbi"  -> factor * slb(element, element.from_point, fori)
          [] q = "slbj"  -> factor * slb(element, element.to_point, forj)
          [] q = "sli"   -> sl(element, loadcase, element.from_point, fori)
          [] q = "slj"   -> sl(element, loadcase, element.to_point, forj)

\* shoop_list, slp_list, ..., slj_list after the loop over the constituents
Lists(element, loadcomb, st, frc) ==
    [q \in Quantities |->
        [k \in 1..Len(loadcomb.loadcases) |-> Entry(q, element, loadcomb, k, st, frc)]]

\* Branch with a final else that sums
BranchFallback(method) == IF method \in Handled THEN method ELSE "scaler"

\* the branch of the if/elif chain over loadcomb.method that runs; none
\* runs for any other method and shoop, ..., slj stay unbound
Branch(method) == IF method \in Handled THEN method ELSE "unbound"

\* Combine with |a + b| for srss
CombineAbsOfSum(method, list) ==
    CASE method = "scaler"  -> Num(Sum(list))
      [] method = "srss"    -> Num(Abs(Sum(list)))
      [] method = "abs"     -> Num(Sum(Absolutes(list)))
      [] method = "signmax" -> Num(Max(list))
      [] method = "signmin" -> Num(Min(list))

\* Combine with signmax and signmin comparing magnitudes
CombineByMagnitude(method, list) ==
    CASE method = "scaler"  -> Num(Sum(list))
      [] method = "srss"    -> Sqrt(Sum(Squares(list)))
      [] method = "abs"     -> Num(Sum(Absolutes(list)))
      [] method = "signmax" -> Num(Max(Absolutes(list)))
      [] method = "signmin" -> Num(Min(Absolutes(list)))

\* one list combined by a method other than algebraic (sqrt taken last for srss)
Combine(method, list) ==
    CASE method = "scaler"  -> Num(Sum(list))
      [] method = "srss"    -> Sqrt(Sum(Squares(list)))
      [] method = "abs"     -> Num(Sum(Absolutes(list)))
      [] method = "signmax" -> Num(Max(list))
      [] method = "signmin" -> Num(Min(list))

\* the algebraic branch: stresses of the combination's own force results;
\* loadcase is the loop variable left by the loop over the constituents
Algebraic(q, element, loadcomb, loadcase, lists) ==
    LET fori == Slice(loadcomb.results, Index(points, element.from_point))
        forj == Slice(loadcomb.results, Index(points, element.to_point))
    IN  CASE q = "shoop" -> Sum(lists.shoop)
          [] q = "slp"   -> Sum(lists.slp)
          [] q = "saxi"  -> sax(element, fori)
          [] q = "saxj"  -> sax(element, forj)
          [] q = "stori" -> stor(element, fori)
          [] q = "storj" -> stor(element, forj)
          [] q = "slbi"  -> slb(element, element.from_point, fori)
          [] q = "slbj"  -> slb(element, element.to_point, forj)
          [] q = "sli"   -> sl(element, loadcase, element.from_point, fori)
          [] q = "slj"   -> sl(element, loadcase, element.to_point, forj)

\* shoop, slp, ..., slj, sifi, sifo of a LoadComb whose method is handled
Combined(element, loadcomb, lists, st) ==
    LET loadcase == LoadCase(loadcomb.loadcases[Len(loadcomb.loadcases)], st)
    IN  [q \in Quantities \cup {"sifi", "sifo"} |->
            IF q = "sifi" THEN Num(sifi(element, "none"))
            ELSE IF q = "sifo" THEN Num(sifo(element, "none"))
            ELSE IF Branch(loadcomb.method) = "algebraic"
            THEN Num(Algebraic(q, element, loadcomb, loadcase, lists))
            ELSE Combine(Branch(loadcomb.method), lists[q])]

\* AllowLoop without the override: each allowable under the load case's own stype
RECURSIVE AllowLoopOwnStype(_, _, _, _, _, _, _, _)
AllowLoopOwnStype(element, loadcomb, k, st, frc, brk, sallowi_list, sallowj_list) ==
    IF k > Len(loadcomb.loadcases)
    THEN [exc |-> "none", stype |-> st, sallowi |-> sallowi_list, sallowj |-> sallowj_list]
    ELSE LET name == loadcomb.loadcases[k]
             loadcase == LoadCase(name, st)
             fori == Slice(frc[name], Index(points, element.from_point))
             forj == Slice(frc[name], Index(points, element.to_point))
         IN  IF sallowRaises(element, loadcase, brk)
             THEN [exc |-> "CodeError", stype |-> st,
                   sallowi |-> sallowi_list, sallowj |-> sallowj_list]
             ELSE AllowLoopOwnStype(element, loadcomb, k + 1, st, frc, brk,
                                    Append(sallowi_list, sallow(element, loadcase, fori)),
                                    Append(sallowj_list, sallow(element, loadcase, forj)))

\* the loop that determines the loadcomb allowable, from constituent k on:
\* each load case carries the loadcomb's stype while its allowable is computed
RECURSIVE AllowLoop(_, _, _, _, _, _, _, _)
AllowLoop(element, loadcomb, k, st, frc, brk, sallowi_list, sallowj_list) ==
    IF k > Len(loadcomb.loadcases)
    THEN [exc |-> "none", stype |-> st, sallowi |-> sallowi_list, sallowj |-> sallowj_list]
    ELSE LET name == loadcomb.loadcases[k]
             saved == st[name]
             over == [st EXCEPT ![name] = loadcomb.stype]
             loadcase == LoadCase(name, over)
             fori == Slice(frc[name], Index(points, element.from_point))
             forj == Slice(frc[name], Index(points, element.to_point))
         IN  IF sallowRaises(element, loadcase, brk)
             THEN [exc |-> "CodeError", stype |-> over,
                   sallowi |-> sallowi_list, sallowj |-> sallowj_list]
             ELSE AllowLoop(element, loadcomb, k + 1, [over EXCEPT ![name] = saved], frc, brk,
                            Append(sallowi_list, sallow(element, loadcase, fori)),
                            Append(sallowj_list, sallow(element, loadcase, forj)))

\* the isinstance(loadcase, LoadComb) branch
CombCheck(element, loadcomb, st, frc, brk) ==
    IF Len(loadcomb.factors) > Len(loadcomb.loadcases)
    THEN Outcome("AttributeError", st, <<>>, <<>>)     \* the fill value 1 has no forces
    ELSE IF Len(loadcomb.loadcases) = 0
    THEN Outcome("ValueError", st, <<>>, <<>>)         \* max, min of an empty list
    ELSE LET lists == Lists(element, loadcomb, st, frc)
             al == AllowLoop(element, loadcomb, 1, st, frc, brk, <<>>, <<>>)
         IN  IF al.exc # "none" THEN Outcome(al.exc, al.stype, lists, <<>>)
             ELSE IF Branch(loadcomb.method) = "unbound"
             THEN Outcome("UnboundLocalError", al.stype, lists, <<>>)   \* sli was never bound
             ELSE Outcome("none", al.stype, lists,
                          Rows(Combined(element, loadcomb, lists, st),
                               Min(al.sallowi), Min(al.sallowj)))

\* the values element_codecheck computes from its arguments
Check(element, case, st, frc, brk) ==
    IF case.kind = "LoadCase" THEN PrimaryCheck(element, case, st, frc, brk)
    ELSE CombCheck(element, case, st, frc, brk)

\* Worst overwriting on a tie as well (>= for >)
WorstOnTie(matrix, idx, row) ==
    IF ~Gt(matrix[idx][Len(matrix[idx])], row[10]) THEN [matrix EXCEPT ![idx] = row]
    ELSE matrix

\* Worst without the comparison: the last tuple wins
WorstLast(matrix, idx, row) == [matrix EXCEPT ![idx] = row]

\* take the worst code stress at node: S[idx, :10] = row if sratio > S[idx, -1]
Worst(matrix, idx, row) ==
    IF Gt(row[10], matrix[idx][Len(matrix[idx])]) THEN [matrix EXCEPT ![idx] = row]
    ELSE matrix

\* Updated with the row of node j off by one
UpdatedNext(matrix, element, out) ==
    IF out.exc # "none" THEN matrix
    ELSE Worst(Worst(matrix, Index(points, element.from_point), out.rows[1]),
               (Index(points, element.to_point) + 1) % Len(points), out.rows[2])

\* S after the call: node i first, then node j
Updated(matrix, element, out) ==
    IF out.exc # "none" THEN matrix
    ELSE Worst(Worst(matrix, Index(points, element.from_point), out.rows[1]),
               Index(points, element.to_point), out.rows[2])

(***************************************************************************)
(* The arguments of a call.                                                *)
(***************************************************************************)
\* at most this many element_codecheck calls in a run
MaxCalls == 2

\* at most this many constituents, and factors, in a LoadComb
MaxLen == 2

\* the values a factor takes
Factors == {-1, 2}

\* combination methods a LoadComb may carry; the last two are not handled
Methods == Handled \cup {"scalar", "vector"}

SeqsUpTo(set, n) == UNION {[1..m -> set] : m \in 0..n}

\* the force results of a LoadComb: the factored sum of its constituents' results
CombResults(loadcases, factors, frc) ==
    [r \in 1..(Len(points) * ndof) |->
        Sum([k \in 1..Len(loadcases) |->
                (IF k <= Len(factors) THEN factors[k] ELSE 1) * frc[loadcases[k]][r]])]

PrimaryCases == {[kind |-> "LoadCase", name |-> l] : l \in LoadCaseNames}

LoadComb(st, method, loadcases, factors, frc) ==
    [kind |-> "LoadComb", stype |-> st, method |-> method, loadcases |-> loadcases,
     factors |-> factors,
     \* only the algebraic method reads the combination's own results
     results |-> IF method = "algebraic" THEN CombResults(loadcases, factors, frc) ELSE <<>>]

\* every LoadComb within the bounds
LoadCombs(frc) ==
    { LoadComb(st, m, lcs, fs, frc) :
        st \in Stypes, m \in Methods,
        lcs \in SeqsUpTo(LoadCaseNames, MaxLen), fs \in SeqsUpTo(Factors, MaxLen) }

\* the LoadCombs of a run of several calls
RunCombs(frc) ==
    { LoadComb(st, m, lcs, fs, frc) :
        st \in {"sus", "exp"}, m \in {"signmin", "abs", "vector"},
        lcs \in {<<"L1", "L2">>}, fs \in {<<>>, <<-1>>} }

(***************************************************************************)
(* The entity registry of psi/entity.py, psi/model.py and psi/app.py as    *)
(* the code check finds it: an App just constructed.                       *)
(***************************************************************************)
\* the process-wide containers ModelContainer.activate rebinds
Kinds == {"points", "elements", "sections", "materials", "insulation", "codes",
          "sifs", "supports", "loads", "loadcases", "reports"}

\* app.models has no attribute _active_object: ModelContainer.__init__ runs
\* EntityContainer.__init__ only, never ActiveEntityContainerMixin.__init__
Unset == -1

\* the value None of an active object
None == 0

\* owner of the dictionaries the App's containers create for themselves
App == 0

\* an active selection of elements: None, or a collection of elements
Selection(isNone, objs) == [none |-> isNone, objs |-> objs]

\* the registry state a history record keeps
Snapshot(m, a, st, b, so, ae) ==
    [models |-> m, activeModel |-> a, store |-> st, bound |-> b, sifsOf |-> so,
     activeElements |-> ae]

\* no registry operation yet
NoOp == [op |-> "none", c |-> "none", name |-> "none", obj |-> 0, exc |-> "none",
         sifs |-> {}, targets |-> {}, omitted |-> FALSE, edges |-> 0,
         pre |-> Snapshot(<<>>, Unset, <<>>, <<>>, <<>>, Selection(TRUE, {}))]

\* the containers with one active object, which ModelContainer.activate resets
SelKinds == {"points", "sections", "materials", "insulation", "codes", "reports"}

\* the active selections of a model just created: Model.__init__ sets
\* _active_point, ..., _active_report and _active_elements to None
NoSelection == [object |-> [k \in SelKinds |-> None], elements |-> Selection(TRUE, {})]

\* the selections and the fields that hold them
selVars == <<activeObject, kept, chosen>>

\* App.__init__: empty containers, each with a dictionary of its own
RegStart ==
    /\ models = <<>>
    /\ activeModel = Unset
    /\ store = (App :> [k \in Kinds |-> <<>>])
    /\ bound = [k \in Kinds |-> App]
    /\ nobj = 0
    /\ sifsOf = <<>>
    /\ activeElements = Selection(TRUE, {})
    /\ reg = NoOp
    /\ activeObject = [k \in SelKinds |-> None]
    /\ kept = <<>>
    /\ chosen = <<>>

(***************************************************************************)
(* The state machine.                                                      *)
(***************************************************************************)
\* minus infinity as a ratio: below every number
NegInf == [sgn |-> -1, num |-> 1, den |-> 0]

\* the values a fresh result matrix holds in its ratio column
Sentinels == {Zero, NegInf}

\* a result matrix as created for an analysis run: one row per point
Fresh(sentinel) ==
    [idx \in 0..(Len(points) - 1) |-> [c \in 1..10 |-> IF c = 10 THEN sentinel ELSE Zero]]

NoCall == [element |-> [name |-> "none"], case |-> [kind |-> "none"], before |-> <<>>,
           out |-> Outcome("none", <<>>, <<>>, <<>>)]

\* a fresh matrix and load cases as the static solver left them
Start ==
    /\ \E sentinel \in Sentinels : S = Fresh(sentinel) /\ S0 = S
    /\ stype \in [LoadCaseNames -> {"sus", "exp"}]
    /\ forces \in ForceTables
    /\ broken \in {{}, {<<"E1", "L2">>}}
    /\ ncalls = 0
    /\ touched = {}
    /\ computed = [idx \in 0..(Len(points) - 1) |-> {}]
    /\ failed = FALSE
    /\ last = NoCall
    /\ Sb = S
    /\ stypeb = stype
    /\ failedb = FALSE
    /\ RegStart

Init == Start /\ todo = {} /\ todob = {}

\* one call element_codecheck(points, case, element, S)
Evaluate(element, case) ==
    \E out \in {Check(element, case, stype, forces, broken)} :
    LET idxi == Index(points, element.from_point)
        idxj == Index(points, element.to_point)
    IN  /\ S' = Updated(S, element, out)
        /\ stype' = out.stype
        /\ ncalls' = ncalls + 1
        /\ touched' = touched \cup {element.from_point, element.to_point}
        /\ computed' = IF out.exc # "none" THEN computed
                       ELSE [idx \in DOMAIN computed |->
                               computed[idx]
                                 \cup (IF idx = idxi THEN {out.rows[1][10]} ELSE {})
                                 \cup (IF idx = idxj THEN {out.rows[2][10]} ELSE {})]
        /\ failed' = (failed \/ out.exc # "none")
        /\ last' = [element |-> element, case |-> case, before |-> stype, out |-> out]
        /\ UNCHANGED <<S0, forces, broken>>
        /\ UNCHANGED regVars

\* a run of calls over elements and load cases
Run ==
    /\ ncalls < MaxCalls
    /\ \E element \in Elements, case \in PrimaryCases \cup RunCombs(forces) :
          Evaluate(element, case)
    /\ UNCHANGED <<todo, Sb, stypeb, failedb, todob>>

Next == Run

Spec == Init /\ [][Next]_vars

\* a single call with any load case or LoadComb within the bounds
Single ==
    /\ ncalls = 0
    /\ \E element \in Elements, case \in PrimaryCases \cup LoadCombs(forces) :
          Evaluate(element, case)
    /\ UNCHANGED <<todo, Sb, stypeb, failedb, todob>>

NextComb == Single

SpecComb == Init /\ [][NextComb]_vars

(***************************************************************************)
(* The same set of calls made in two orders, on S and on Sb.               *)
(***************************************************************************)
\* at most this many calls in the set
MaxPending == 2

\* the LoadCombs of the set
OrderCombs(frc) ==
    { LoadComb(st, "signmin", <<"L1", "L2">>, <<>>, frc) : st \in {"sus", "exp"} }

\* the calls the set is drawn from: <<element, case>>
OrderCalls(frc) == Elements \X (PrimaryCases \cup OrderCombs(frc))

InitOrder ==
    /\ Start
    /\ todo \in {c \in SUBSET OrderCalls(forces) : Cardinality(c) \in 1..MaxPending}
    /\ todob = todo

\* the next call of the first order
First ==
    \E call \in todo :
        /\ Evaluate(call[1], call[2])
        /\ todo' = todo \ {call}
        /\ UNCHANGED <<Sb, stypeb, failedb, todob>>

\* the next call of the second order: the same function on Sb
Second ==
    \E call \in todob :
    \E out \in {Check(call[1], call[2], stypeb, forces, broken)} :
        /\ Sb' = Updated(Sb, call[1], out)
        /\ stypeb' = out.stype
        /\ failedb' = (failedb \/ out.exc # "none")
        /\ todob' = todob \ {call}
        /\ UNCHANGED <<S, S0, stype, forces, broken, ncalls, touched, computed, failed,
                       last, todo>>
        /\ UNCHANGED regVars

NextOrder == First \/ Second

SpecOrder == InitOrder /\ [][NextOrder]_vars

TypeOK ==
    /\ DOMAIN S = 0..(Len(points) - 1)
    /\ \A idx \in DOMAIN S : Len(S[idx]) = 10
    /\ stype \in [LoadCaseNames -> Stypes]
    /\ ncalls \in 0..MaxCalls

(***************************************************************************)
(* The entity registry: OrderedDict, Entity, EntityContainer,              *)
(* ModelContainer and SIFContainer.  An OrderedDict is the sequence of its *)
(* (key, value) pairs in insertion order; an object is a positive integer. *)
(***************************************************************************)
\* at most this many objects are registered
MaxObjects == 4

\* at most this many of them are elements
MaxElements == 2

\* the names the callers use; "" is the string that is false in a condition
Names == {"", "a", "b"}

\* the containers whose entities the callers rename and delete
Managed == {"models", "points"}

\* the SIF objects handed to apply
SifObjects == {"W1", "B1"}

\* the SIF classes, tee type intersections and the one welding connection
Intersections == {"Welding", "Unreinforced", "Reinforced", "Weldolet", "Sockolet", "Sweepolet"}

Connections == {"ButtWeld"}

\* a point has at most this many edges
MaxEdges == 3

\* d.keys()
Keys(d) == {d[i][1] : i \in 1..Len(d)}

\* d.values()
Values(d) == {d[i][2] : i \in 1..Len(d)}

\* position of the entry whose value is inst
Position(d, inst) == CHOOSE i \in 1..Len(d) : d[i][2] = inst

\* del d[key] for the key at position i
DelItem(d, i) == SubSeq(d, 1, i - 1) \o SubSeq(d, i + 1, Len(d))

\* d[name] = inst: a key already present keeps its place, a new one goes last
SetItem(d, name, inst) ==
    IF name \in Keys(d)
    THEN [i \in 1..Len(d) |-> IF d[i][1] = name THEN <<name, inst>> ELSE d[i]]
    ELSE Append(d, <<name, inst>>)

\* the dictionary behind container c: app.models._objects or app.<kind>._objects
Objects(c) == IF c = "models" THEN models ELSE store[bound[c]][c]

\* the same in a recorded state
ObjectsIn(snap, c) == IF c = "models" THEN snap.models ELSE snap.store[snap.bound[c]][c]

\* Entity.__new__ without the test for a name in use
NewCheckOverwriting(isModel, active, d, name) ==
    IF ~isModel /\ active = Unset THEN "AttributeError"
    ELSE IF ~isModel /\ active = None THEN "AssertionError"
    ELSE "none"

\* Entity.__new__(cls, name): the exception it raises, "none" if it returns
NewCheck(isModel, active, d, name) ==
    IF ~isModel /\ active = Unset THEN "AttributeError"  \* app.models.active_object
    ELSE IF ~isModel /\ active = None THEN "AssertionError"
    ELSE IF name \in Keys(d) THEN "NameError"
    ELSE "none"

\* EntityContainer.name(inst, new_name) with a new name: the exception it
\* ends with and the dictionary it leaves.  The loop over items() goes on
\* after the entry was deleted and re-inserted; the iterator raises on its
\* next step unless the entry was the last one.
Renamed(d, inst, new_name) ==
    IF new_name # "" /\ new_name \in Keys(d)
    THEN [exc |-> "AssertionError", objects |-> d]
    ELSE IF inst \notin Values(d) THEN [exc |-> "none", objects |-> d]
    ELSE LET i == Position(d, inst)
         IN  [exc |-> IF i < Len(d) THEN "RuntimeError" ELSE "none",
              objects |-> SetItem(DelItem(d, i), new_name, inst)]

\* EntityContainer.delete(inst)
Deleted(d, inst) == IF inst \in Values(d) THEN DelItem(d, Position(d, inst)) ELSE d

\* ModelContainer.delete(inst) is EntityContainer.delete(inst), first in the
\* method resolution order: the active object stays
ActiveAfterDelete(active, inst) == active

\* activate that leaves app.points on the dictionary it had
ReboundButPoints(b, inst) == [k \in Kinds |-> IF k = "points" THEN b[k] ELSE inst]

\* ModelContainer.activate(inst): app.<kind>._objects = inst._<kind> for each kind
Rebound(b, inst) == [k \in Kinds |-> inst]

\* apply that assigns the sifs instead of adding them
AppliedReplacing(so, sifs, targets) ==
    [e \in DOMAIN so |-> IF e \in targets THEN sifs ELSE so[e]]

\* element.sifs.update(sifs) for each target element
Applied(so, sifs, targets) ==
    [e \in DOMAIN so |-> IF e \in targets THEN so[e] \cup sifs ELSE so[e]]

\* the constructor of a SIF class called as cls(element, point, ...): the
\* exception it raises.  Entity.__new__ takes the element for the name;
\* with a name in its place SIF.__init__ calls Entity.__init__ without one,
\* and ButtWeld.__init__ calls super(Welding, self).  The test of the
\* point's edges comes after these.
Constructed(cls, byName, active, d, name, edges) ==
    IF ~byName THEN "NameError"            \* name must be integer or string
    ELSE IF NewCheck(FALSE, active, d, name) # "none" THEN NewCheck(FALSE, active, d, name)
    ELSE "TypeError"

\* the record of an operation on the present state
Op(op, c, name, obj, exc) ==
    [NoOp EXCEPT !.op = op, !.c = c, !.name = name, !.obj = obj, !.exc = exc,
                 !.pre = Snapshot(models, activeModel, store, bound, sifsOf, activeElements)]

\* container c now holds dictionary d
Put(c, d) ==
    IF c = "models" THEN models' = d /\ UNCHANGED store
    ELSE store' = [store EXCEPT ![bound[c]][c] = d] /\ UNCHANGED models

\* Model(name): Entity.__new__, Model.__init__, EntityContainer.new, activate
NewModel ==
    /\ nobj < MaxObjects
    /\ \E name \in Names :
       \E exc \in {NewCheck(TRUE, activeModel, models, name)} :
       LET inst == nobj + 1 IN
       /\ reg' = Op("NewModel", "models", name, inst, exc)
       /\ IF exc # "none"
          THEN UNCHANGED <<models, activeModel, store, bound, nobj, sifsOf, activeElements,
                           activeObject, kept, chosen>>
          ELSE /\ models' = SetItem(models, name, inst)
               /\ store' = store @@ (inst :> [k \in Kinds |-> <<>>])
               /\ kept' = kept @@ (inst :> NoSelection)
               /\ chosen' = chosen @@ (inst :> NoSelection)
               /\ activeModel' = inst
               /\ bound' = Rebound(bound, inst)
               /\ activeObject' = kept'[inst].object
               /\ activeElements' = kept'[inst].elements
               /\ nobj' = inst
               /\ UNCHANGED sifsOf
    /\ UNCHANGED checkVars

\* an entity of kind c created by name: Entity.__new__, Entity.__init__,
\* EntityContainer.new
NewEntity(c) ==
    /\ nobj < MaxObjects
    /\ \E name \in Names :
       \E exc \in {NewCheck(FALSE, activeModel, Objects(c), name)} :
       LET inst == nobj + 1 IN
       /\ reg' = Op("NewEntity", c, name, inst, exc)
       /\ IF exc # "none"
          THEN UNCHANGED <<models, activeModel, store, bound, nobj, sifsOf, activeElements>>
          ELSE /\ Put(c, SetItem(Objects(c), name, inst))
               /\ nobj' = inst
               /\ sifsOf' = IF c = "elements" THEN sifsOf @@ (inst :> {}) ELSE sifsOf
               /\ UNCHANGED <<activeModel, bound, activeElements>>
    /\ UNCHANGED selVars
    /\ UNCHANGED checkVars

\* Point(name)
NewPoint == NewEntity("points")

\* an element created by name
NewElement == Cardinality(DOMAIN sifsOf) < MaxElements /\ NewEntity("elements")

\* entity.name = new_name: EntityContainer.name(inst, new_name)
Rename ==
    /\ \E c \in Managed :
       \E inst \in Values(Objects(c)), new_name \in Names :
       \E out \in {Renamed(Objects(c), inst, new_name)} :
       /\ reg' = Op("Rename", c, new_name, inst, out.exc)
       /\ Put(c, out.objects)
       /\ UNCHANGED <<activeModel, bound, nobj, sifsOf, activeElements>>
    /\ UNCHANGED selVars
    /\ UNCHANGED checkVars

\* entity.delete(), app.models.close(inst): EntityContainer.delete(inst)
Delete ==
    /\ \E c \in Managed :
       \E inst \in Values(Objects(c)) :
       /\ reg' = Op("Delete", c, "none", inst, "none")
       /\ Put(c, Deleted(Objects(c), inst))
       /\ activeModel' = IF c = "models" THEN ActiveAfterDelete(activeModel, inst)
                         ELSE activeModel
       /\ UNCHANGED <<bound, nobj, sifsOf, activeElements>>
    /\ UNCHANGED selVars
    /\ UNCHANGED checkVars

\* model.activate(): ModelContainer.activate(inst)
Activate ==
    /\ \E inst \in Values(models) :
       /\ reg' = Op("Activate", "models", "none", inst, "none")
       /\ activeModel' = inst
       /\ bound' = Rebound(bound, inst)
       /\ activeObject' = kept[inst].object
       /\ activeElements' = kept[inst].elements
       /\ UNCHANGED <<models, store, nobj, sifsOf, kept, chosen>>
    /\ UNCHANGED checkVars

\* app.models.active_object = None
Deselect ==
    /\ reg' = Op("Deselect", "models", "none", 0, "none")
    /\ activeModel' = None
    /\ UNCHANGED <<models, store, bound, nobj, sifsOf, activeElements>>
    /\ UNCHANGED selVars
    /\ UNCHANGED checkVars

\* app.elements.active_objects = a collection of elements of the container
SelectElements ==
    /\ \E objs \in SUBSET Values(Objects("elements")) :
       /\ reg' = [Op("SelectElements", "elements", "none", 0, "none") EXCEPT !.targets = objs]
       /\ activeElements' = Selection(FALSE, objs)
    /\ UNCHANGED <<models, activeModel, store, bound, nobj, sifsOf>>
    /\ UNCHANGED selVars
    /\ UNCHANGED checkVars

\* model.active_elements = elements: the setter of Model writes
\* app.elements.active_objects
SelectBatch ==
    /\ \E objs \in SUBSET Values(Objects("elements")) :
       /\ reg' = [Op("SelectBatch", "elements", "none", 0, "none") EXCEPT !.targets = objs]
       /\ activeElements' = Selection(FALSE, objs)
       /\ chosen' = IF activeModel \in DOMAIN chosen
                    THEN [chosen EXCEPT ![activeModel].elements = Selection(FALSE, objs)]
                    ELSE chosen
    /\ UNCHANGED <<models, activeModel, store, bound, nobj, sifsOf, activeObject, kept>>
    /\ UNCHANGED checkVars

\* model.active_point = point, ..., model.active_report = report: the setter
\* of Model writes app.<kind>.active_object
Select ==
    /\ \E k \in SelKinds :
       \E inst \in Values(Objects(k)) :
       /\ reg' = Op("Select", k, "none", inst, "none")
       /\ activeObject' = [activeObject EXCEPT ![k] = inst]
       /\ chosen' = IF activeModel \in DOMAIN chosen
                    THEN [chosen EXCEPT ![activeModel].object[k] = inst]
                    ELSE chosen
    /\ UNCHANGED <<models, activeModel, store, bound, nobj, sifsOf, activeElements, kept>>
    /\ UNCHANGED checkVars

\* app.sifs.apply(sifs, elements) and app.sifs.apply(sifs)
Apply ==
    /\ \E sifs \in SUBSET SifObjects, omitted \in BOOLEAN :
       \E elements \in IF omitted THEN {{}} ELSE SUBSET DOMAIN sifsOf :
       LET raises == omitted /\ activeElements.none   \* None is not iterable
           targets == IF raises THEN {}
                      ELSE IF omitted THEN activeElements.objs ELSE elements
       IN  /\ reg' = [Op("Apply", "sifs", "none", 0,
                         IF raises THEN "TypeError" ELSE "none")
                        EXCEPT !.sifs = sifs, !.targets = targets, !.omitted = omitted]
           /\ sifsOf' = Applied(sifsOf, sifs, targets)
    /\ UNCHANGED <<models, activeModel, store, bound, nobj, activeElements>>
    /\ UNCHANGED selVars
    /\ UNCHANGED checkVars

\* Welding(element, point, ...), ..., ButtWeld(element, point) on a point
\* with some number of edges; the element given as an object or by its name
Construct ==
    /\ \E cls \in Intersections \cup Connections, edges \in 1..MaxEdges, byName \in BOOLEAN :
       \E i \in 1..Len(Objects("elements")) :
       LET name == Objects("elements")[i][1]
           element == Objects("elements")[i][2]
       IN  reg' = [Op("Construct", "sifs", cls, element,
                      Constructed(cls, byName, activeModel, Objects("sifs"), name, edges))
                     EXCEPT !.edges = edges]
    /\ UNCHANGED <<models, activeModel, store, bound, nobj, sifsOf, activeElements>>
    /\ UNCHANGED selVars
    /\ UNCHANGED checkVars

\* no code check is running
Idle ==
    /\ S = Fresh(Zero) /\ S0 = S /\ Sb = S
    /\ stype = [l \in LoadCaseNames |-> "sus"] /\ stypeb = stype
    /\ forces = CHOOSE frc \in ForceTables : TRUE
    /\ broken = {}
    /\ ncalls = 0
    /\ touched = {}
    /\ computed = [idx \in 0..(Len(points) - 1) |-> {}]
    /\ failed = FALSE /\ failedb = FALSE
    /\ last = NoCall
    /\ todo = {} /\ todob = {}

InitReg == RegStart /\ Idle

\* models and entities created, renamed, deleted and activated
NextReg ==
    \/ NewModel
    \/ NewPoint
    \/ Rename
    \/ Delete
    \/ Activate
    \/ Deselect

SpecReg == InitReg /\ [][NextReg]_vars

\* SIFs constructed on the elements of the models
NextSif ==
    \/ NewModel
    \/ NewElement
    \/ Deselect
    \/ Construct

SpecSif == InitReg /\ [][NextSif]_vars

\* SIFs applied to the elements of the models
NextApply ==
    \/ NewModel
    \/ NewElement
    \/ SelectElements
    \/ Apply

SpecApply == InitReg /\ [][NextApply]_vars

\* active selections made and models switched
NextSel ==
    \/ NewModel
    \/ NewPoint
    \/ NewElement
    \/ Activate
    \/ Select
    \/ SelectBatch

SpecSel == InitReg /\ [][NextSel]_vars

\* the registry keeps its shape
RegTypeOK ==
    /\ nobj \in 0..MaxObjects
    /\ DOMAIN bound = Kinds
    /\ \A k \in Kinds : bound[k] \in DOMAIN store
    /\ activeModel \in {Unset, None} \cup (DOMAIN store \ {App})

(***************************************************************************)
(* Properties of the worst-case accumulation.                              *)
(***************************************************************************)
\* the last call returned normally, having computed a tuple for each end
Returned == last.case.kind # "none" /\ last.out.exc = "none"

\* row of S of end point n (1: from_point, 2: to_point) of the last call's element
EndRow(n) == Index(points, IF n = 1 THEN last.element.from_point ELSE last.element.to_point)

\* C1: in every call, for each end point of the element independently, the
\* row of S is overwritten with the newly computed tuple of ten values if
\* the new ratio is strictly greater than the stored ratio, and is left
\* exactly as it was otherwise.
StrictlyGreaterOverwrites ==
    [][ Returned' =>
          \A n \in {1, 2} :
             IF Gt(last'.out.rows[n][10], S[EndRow(n)'][10])
             THEN S'[EndRow(n)'] = last'.out.rows[n]
             ELSE S'[EndRow(n)'] = S[EndRow(n)'] ]_vars

\* a call that overwrote the row of one end and left a filled row of the
\* other end, whose ratio it only equalled, as it was
OverwroteOneKeptOther ==
    /\ Returned
    /\ \E n, m \in {1, 2} :
          /\ S[EndRow(n)] = last.out.rows[n]
          /\ S[EndRow(m)] # last.out.rows[m]
          /\ S[EndRow(m)][10] = last.out.rows[m][10]
          /\ S[EndRow(m)] # S0[EndRow(m)]

\* the greatest of a non-empty set of ratios
MaxRatio(set) == CHOOSE r \in set : \A o \in set : ~Gt(o, r)

\* C2 as stated: the stored ratio of a point equals the maximum of the
\* ratios computed for it by the calls that had it as an end point.
StoredIsMaxComputed ==
    \A idx \in DOMAIN S : computed[idx] # {} => S[idx][10] = MaxRatio(computed[idx])

\* C2 amended: the stored ratio of a point equals the maximum of the ratio
\* the row held initially and the ratios computed for the point by the calls
\* that had it as an end point, whatever the order of the calls.
StoredIsMaxOfInitialAndComputed ==
    \A idx \in DOMAIN S : S[idx][10] = MaxRatio(computed[idx] \cup {S0[idx][10]})

\* two calls computed different ratios for a point, and the point holds the
\* greater one, computed by the earlier call
HoldsEarlierMaximum ==
    /\ Returned
    /\ \E n \in {1, 2} :
          /\ Cardinality(computed[EndRow(n)]) = 2
          /\ S[EndRow(n)][10] # S0[EndRow(n)][10]
          /\ Gt(S[EndRow(n)][10], last.out.rows[n][10])

\* C6: the row of a point that was not an end point of any evaluated
\* element still holds its initial value.
UntouchedRowsKeepInitial ==
    \A idx \in DOMAIN S : points[idx + 1] \notin touched => S[idx] = S0[idx]

\* calls filled the rows of both ends of an element and one point is left out
FilledAroundUntouched ==
    /\ ncalls = MaxCalls
    /\ \E idx \in DOMAIN S : points[idx + 1] \notin touched
    /\ Cardinality({idx \in DOMAIN S : S[idx] # S0[idx]}) = 2

\* C8: a call with a LoadComb whose method is not one the code handles
\* ends in an error and leaves every row of S unchanged.
UnsupportedMethodFails ==
    [][ (last'.case.kind = "LoadComb" /\ last'.case.method \notin Handled /\ ncalls' # ncalls)
          => (last'.out.exc # "none" /\ S' = S) ]_vars

\* a call with the method "vector" ended in UnboundLocalError on a filled S
VectorMethodRefused ==
    /\ last.case.kind = "LoadComb"
    /\ last.case.method = "vector"
    /\ last.out.exc = "UnboundLocalError"
    /\ S # S0

(***************************************************************************)
(* Properties of a single call.                                            *)
(***************************************************************************)
\* x / y for reals, y # 0
RealQuot(x, y) == Real(x.sgn * y.sgn, x.num * y.den, x.den * y.num)

\* the last call was handed a LoadComb
CombCall == last.case.kind = "LoadComb"

\* the combined value of quantity q as the last call offered it to S
Val(q) ==
    LET i == last.out.rows[1]
        j == last.out.rows[2]
    IN  CASE q = "shoop" -> i[1]
          [] q = "saxi"  -> i[2]
          [] q = "saxj"  -> j[2]
          [] q = "stori" -> i[3]
          [] q = "storj" -> j[3]
          [] q = "slp"   -> i[4]
          [] q = "slbi"  -> i[5]
          [] q = "slbj"  -> j[5]
          [] q = "sli"   -> i[6]
          [] q = "slj"   -> j[6]

\* C4: the ratio is decided per end node: total longitudinal stress over
\* allowable of that node when the allowable is non-zero, 0 when it is
\* zero, whatever the allowable of the other node, for a primary load case
\* and for a LoadComb.
RatioDecidedPerNode ==
    Returned =>
        \A n \in {1, 2} :
            LET row == last.out.rows[n]
            IN  row[10] = IF row[9] = Zero THEN Zero ELSE RealQuot(row[6], row[9])

\* C5: after a call with a LoadComb, on every exit path, each constituent
\* load case carries the stress type it had before the call.
StypeRestoredOnEveryExit ==
    CombCall =>
        \A k \in 1..Len(last.case.loadcases) :
            stype[last.case.loadcases[k]] = last.before[last.case.loadcases[k]]

\* the per-constituent value of quantity q scaled by the constituent's factor
Scaled(q, k) ==
    IF q \in {"sli", "slj"} THEN Factor(last.case, k) * last.out.lists[q][k]
    ELSE last.out.lists[q][k]

\* C7: a call with a LoadComb whose method is "scalar" completes without
\* error and each combined quantity is the sum of the factor-scaled
\* per-constituent values.
ScalarSumsConstituents ==
    ( /\ CombCall
      /\ last.case.method = "scalar"
      /\ Len(last.case.loadcases) >= 1
      /\ Len(last.case.factors) <= Len(last.case.loadcases)
      /\ \A k \in 1..Len(last.case.loadcases) :
            <<last.element.name, last.case.loadcases[k]>> \notin broken )
    => ( /\ Returned
         /\ \A q \in Quantities :
               Val(q) = Num(Sum([k \in 1..Len(last.case.loadcases) |-> Scaled(q, k)])) )

\* the last call combined two constituents by srss and returned normally
SrssOfTwo ==
    CombCall /\ Returned /\ last.case.method = "srss" /\ Len(last.case.loadcases) = 2

\* the last call's LoadComb with factor k negated
Negated(k) == [last.case EXCEPT !.factors[k] = -@]

\* C9: for an srss LoadComb with two constituents whose values of a
\* quantity, as listed per constituent, are a and b, the combined value c is
\* non-negative with c*c = a*a + b*b, and negating a factor does not change
\* the combined values.
SrssIsRootOfSumOfSquares ==
    SrssOfTwo =>
        /\ \A q \in Quantities :
              LET a == last.out.lists[q][1]
                  b == last.out.lists[q][2]
                  c == Val(q)
              IN  c.sgn >= 0 /\ c.den = 1 /\ c.num = a * a + b * b
        /\ \A k \in 1..Len(last.case.factors) :
              Check(last.element, Negated(k), last.before, forces, broken).rows = last.out.rows

\* srss of axial stresses of opposite sign: a*a + b*b = 58 while |a + b| = 4
SrssOfOppositeSigns ==
    /\ SrssOfTwo
    /\ last.out.lists["saxi"] = <<3, -7>>
    /\ Val("saxi") = Sqrt(58)
    /\ Len(last.case.factors) = 0

\* C10: for signmax each combined quantity is the signed maximum of the
\* per-constituent values, for signmin the signed minimum; the combined
\* value is one of the constituent values.
SignedExtremes ==
    (CombCall /\ Returned /\ last.case.method \in {"signmax", "signmin"}) =>
        \A q \in Quantities :
            \E k \in 1..Len(last.case.loadcases) :
                /\ Val(q) = Num(last.out.lists[q][k])
                /\ \A m \in 1..Len(last.case.loadcases) :
                      IF last.case.method = "signmax"
                      THEN last.out.lists[q][m] <= last.out.lists[q][k]
                      ELSE last.out.lists[q][m] >= last.out.lists[q][k]

\* signmin of the axial stresses 3 and -7 gave -7
SignminOfMixedSigns ==
    /\ CombCall /\ Returned
    /\ last.case.method = "signmin"
    /\ last.out.lists["saxi"] = <<3, -7>>
    /\ Val("saxi") = Num(-7)

(***************************************************************************)
(* Properties of the order of the calls.                                   *)
(***************************************************************************)
\* both orders have made every call of the set
BothDone == ncalls > 0 /\ todo = {} /\ todob = {}

\* the ratio column of a matrix
RatioColumn(matrix) == [idx \in DOMAIN matrix |-> matrix[idx][10]]

ListsBuilt == CombCall /\ DOMAIN last.out.lists = Quantities

\* c * x for an integer c and a real x
Times(c, x) == Real(Sign(c) * x.sgn, c * c * x.num, x.den)

\* the value of quantity q a primary evaluation of constituent k of the last
\* call's LoadComb computes for the last call's element
PrimaryValue(q, k) ==
    LET case == [kind |-> "LoadCase", name |-> last.case.loadcases[k]]
        rows == PrimaryCheck(last.element, case, last.before, forces, {}).rows
        i == rows[1]
        j == rows[2]
    IN  CASE q = "shoop" -> i[1]
          [] q = "saxi"  -> i[2]
          [] q = "saxj"  -> j[2]
          [] q = "stori" -> i[3]
          [] q = "storj" -> j[3]
          [] q = "slp"   -> i[4]
          [] q = "slbi"  -> i[5]
          [] q = "slbj"  -> j[5]
          [] q = "sli"   -> i[6]
          [] q = "slj"   -> j[6]

\* C18: after the loop over the constituents of a LoadComb every
\* per-quantity list holds exactly one entry per constituent, and every
\* entry, the total longitudinal stress at node i and node j included, is
\* the constituent's primary value times its factor (1 beyond the end of the
\* factor list).
EntriesArePrimaryTimesFactor ==
    ListsBuilt =>
        \A q \in Quantities :
            /\ Len(last.out.lists[q]) = Len(last.case.loadcases)
            /\ \A k \in 1..Len(last.case.loadcases) :
                  Num(last.out.lists[q][k]) = Times(Factor(last.case, k), PrimaryValue(q, k))

\* quantity q in the two tuples (node i, node j) a call offers to S
Column(rows, q) ==
    CASE q = "shoop" -> rows[1][1]
      [] q = "saxi"  -> rows[1][2]
      [] q = "saxj"  -> rows[2][2]
      [] q = "stori" -> rows[1][3]
      [] q = "storj" -> rows[2][3]
      [] q = "slp"   -> rows[1][4]
      [] q = "slbi"  -> rows[1][5]
      [] q = "slbj"  -> rows[2][5]
      [] q = "sli"   -> rows[1][6]
      [] q = "slj"   -> rows[2][6]

\* the quantities the algebraic method takes from the combination's own forces
FromOwnForces == {"saxi", "saxj", "stori", "storj", "slbi", "slbj", "sli", "slj"}

\* the last call evaluated a LoadComb by the algebraic method and returned
AlgebraicCall == CombCall /\ Returned /\ last.case.method = "algebraic"

\* the same call with the constituents' stress types replaced by st
SameCallWith(st) == Check(last.element, last.case, st, forces, {})

\* C19: for the algebraic method the axial, torsional, bending and total
\* longitudinal stress at each node depend only on the combination's own
\* force vector, so the same combination with the same forces gives the same
\* eight values whatever the load-case data of its constituents; hoop and
\* pressure-longitudinal stress are the sums of the factor-scaled
\* per-constituent values.
AlgebraicUsesOwnForcesOnly ==
    AlgebraicCall =>
        /\ \A st \in [LoadCaseNames -> {"sus", "exp"}] :
           \A q \in FromOwnForces :
               Column(SameCallWith(st).rows, q) = Val(q)
        /\ \A q \in {"shoop", "slp"} :
               Val(q) = Num(Sum([k \in 1..Len(last.case.loadcases) |->
                                    Factor(last.case, k)
                                      * Entry(q, last.element,
                                              [last.case EXCEPT !.factors = <<>>],
                                              k, last.before, forces)]))

\* the allowable of constituent k of the last call's LoadComb at end point n,
\* from the constituent's own forces while it carries the LoadComb's stype
ConstituentAllowable(k, n) ==
    LET name == last.case.loadcases[k]
        loadcase == LoadCase(name, [last.before EXCEPT ![name] = last.case.stype])
    IN  sallow(last.element, loadcase, Slice(forces[name], EndRow(n)))

\* C20: for a LoadComb the allowable at each node is the minimum over the
\* constituents of the allowable computed from the constituent's own force
\* vector while it carries the combination's stype, and that minimum is the
\* allowable written to S when the row is overwritten.
AllowableIsMinOverConstituents ==
    (CombCall /\ Returned) =>
        \A n \in {1, 2} :
            /\ \E k \in 1..Len(last.case.loadcases) :
                  /\ last.out.rows[n][9] = Num(ConstituentAllowable(k, n))
                  /\ \A other \in 1..Len(last.case.loadcases) :
                        ConstituentAllowable(k, n) <= ConstituentAllowable(other, n)
            /\ S[EndRow(n)] # S0[EndRow(n)] => S[EndRow(n)][9] = last.out.rows[n][9]

\* a LoadComb whose second constituent has the smaller allowable at node i,
\* under a stype its constituents do not have of their own, was written to S
MinAllowableWritten ==
    /\ CombCall /\ Returned
    /\ Len(last.case.loadcases) = 2
    /\ last.case.stype = "exp"
    /\ \A k \in {1, 2} : last.before[last.case.loadcases[k]] = "sus"
    /\ ConstituentAllowable(2, 1) < ConstituentAllowable(1, 1)
    /\ S[EndRow(1)] # S0[EndRow(1)]
    /\ S[EndRow(1)][9] = Num(ConstituentAllowable(2, 1))

(***************************************************************************)
(* Properties of the entity registry.                                      *)
(***************************************************************************)
\* the exceptions the code raises for a failure of identity: NameError for
\* a name in use, AssertionError for a name taken or no active model
IdentityError == {"NameError", "AssertionError"}

\* the last operation created a model or another entity
Created == reg.op \in {"NewModel", "NewEntity"}

\* the models other than the one that was active before the last operation
OtherModels == DOMAIN reg.pre.store \ {App, reg.pre.activeModel}

\* C11: with a model active, creating an entity under a name its container
\* already holds fails with IdentityError and leaves the container unchanged;
\* creating it under a name the active model's container does not hold
\* succeeds, whether or not another model holds that name, and registers the
\* entity in the active model's container only.
NamesUniquePerModel ==
    (Created /\ reg.pre.activeModel \in Values(reg.pre.models)) =>
        IF reg.name \in Keys(ObjectsIn(reg.pre, reg.c))
        THEN /\ reg.exc \in IdentityError
             /\ Objects(reg.c) = ObjectsIn(reg.pre, reg.c)
             /\ store = reg.pre.store
        ELSE /\ reg.exc = "none"
             /\ Objects(reg.c) = Append(ObjectsIn(reg.pre, reg.c), <<reg.name, reg.obj>>)
             /\ \A m \in OtherModels : store[m] = reg.pre.store[m]
             /\ reg.op = "NewEntity" =>
                   store[reg.pre.activeModel][reg.c] = Objects(reg.c)

\* a point was created under a name that a point of another model has
SameNameInTwoModels ==
    /\ reg.op = "NewEntity" /\ reg.c = "points" /\ reg.exc = "none"
    /\ reg.pre.activeModel \in Values(reg.pre.models)
    /\ \E m \in OtherModels :
          /\ reg.name \in Keys(store[m]["points"])
          /\ reg.obj \notin Values(store[m]["points"])
          /\ reg.obj \in Values(store[reg.pre.activeModel]["points"])

\* no model was active before the last operation: none was ever activated,
\* or the active object was set to None
NoModelWasActive == reg.pre.activeModel \in {Unset, None}

\* C12: creating an entity other than a model while no model is active,
\* before any model was ever created included, fails with IdentityError and
\* registers nothing; creating a model is allowed then.
NoActiveModelRefusesEntities ==
    NoModelWasActive =>
        /\ reg.op = "NewEntity" =>
              /\ reg.exc \in IdentityError
              /\ store = reg.pre.store /\ models = reg.pre.models
        /\ (reg.op = "NewModel" /\ reg.name \notin Keys(reg.pre.models)) =>
              /\ reg.exc = "none"
              /\ reg.obj \in Values(models)

\* the entries of dictionary d other than the one of inst
OtherEntries(d, inst) == {d[i] : i \in {j \in 1..Len(d) : d[j][2] # inst}}

\* C13: for every new name, rename fails with IdentityError and leaves the
\* container unchanged if the new name is already a key; otherwise it
\* completes without error, the container maps the new name to the entity,
\* the old name is gone and every other entry is unchanged, wherever the
\* entity stands in the container.
RenameChecksThenMoves ==
    reg.op = "Rename" =>
        LET before == ObjectsIn(reg.pre, reg.c)
            after == Objects(reg.c)
            old == before[Position(before, reg.obj)][1]
        IN  IF reg.name \in Keys(before)
            THEN reg.exc \in IdentityError /\ after = before
            ELSE /\ reg.exc = "none"
                 /\ \E i \in 1..Len(after) : after[i] = <<reg.name, reg.obj>>
                 /\ old \notin Keys(after)
                 /\ OtherEntries(after, reg.obj) = OtherEntries(before, reg.obj)

\* C14: delete removes the entity from its container, and if the entity was
\* the container's active selection the selection is cleared: after the
\* active model is closed the model container's active object is None.
DeleteClearsActive ==
    reg.op = "Delete" =>
        /\ reg.obj \notin Values(Objects(reg.c))
        /\ OtherEntries(Objects(reg.c), reg.obj) = OtherEntries(ObjectsIn(reg.pre, reg.c), reg.obj)
        /\ (reg.c = "models" /\ reg.pre.activeModel = reg.obj) => activeModel = None

\* the model objects created so far
ModelObjects == DOMAIN store \ {App}

\* C15: after activate(M), M is the active model and every process-wide
\* container is backed by M's private container, none by that of the model
\* active before; the private containers themselves are not altered, so
\* while a model stays active the containers expose exactly its entities,
\* those created since its activation included.
ActivateRebindsEveryContainer ==
    /\ reg.op = "Activate" =>
          /\ activeModel = reg.obj
          /\ store = reg.pre.store
    /\ activeModel \in ModelObjects =>
          \A k \in Kinds :
              /\ bound[k] = activeModel
              /\ Objects(k) = store[activeModel][k]

\* model A was activated again after model B: each holds a point created
\* while it was active, and the point container exposes A's point only
SwitchedBackToFirstModel ==
    /\ reg.op = "Activate"
    /\ reg.pre.activeModel \in ModelObjects \ {reg.obj}
    /\ reg.obj < reg.pre.activeModel
    /\ Len(store[reg.obj]["points"]) = 1
    /\ Len(store[reg.pre.activeModel]["points"]) = 1
    /\ ObjectsIn(reg.pre, "points") = store[reg.pre.activeModel]["points"]
    /\ Objects("points") = store[reg.obj]["points"]
    /\ Objects("points") # ObjectsIn(reg.pre, "points")

(***************************************************************************)
(* Properties of the stress intensification factors.                       *)
(***************************************************************************)
\* the number of edges the class of the last constructed SIF requires
RequiredEdges == IF reg.name \in Intersections THEN 3 ELSE 2

\* C16: constructing a SIF of an Intersection kind succeeds if and only if
\* the point has exactly 3 edges, one of the Connection kind if and only if
\* it has exactly 2; otherwise it fails with ValidationError (any exception
\* is taken for the refusal here), and a refused construction leaves no SIF
\* registered.
SifTopologyValidated ==
    reg.op = "Construct" =>
        /\ reg.edges = RequiredEdges => reg.exc = "none"
        /\ reg.edges # RequiredEdges =>
              /\ reg.exc # "none"
              /\ Objects("sifs") = ObjectsIn(reg.pre, "sifs")

\* the elements the last apply was aimed at: those given, or the active
\* elements when none were given (no element if there was no selection)
Targets ==
    IF ~reg.omitted THEN reg.targets
    ELSE IF reg.pre.activeElements.none THEN {}
    ELSE reg.pre.activeElements.objs

\* C17: apply(sifs, elements) only adds: each target element's SIF set
\* becomes its union with the given SIFs, every other element's set is
\* unchanged, applying the same SIFs again changes nothing, and with the
\* elements omitted the targets are exactly the active elements.
ApplyOnlyAdds ==
    reg.op = "Apply" =>
        /\ DOMAIN sifsOf = DOMAIN reg.pre.sifsOf
        /\ \A e \in DOMAIN sifsOf :
              sifsOf[e] = IF e \in Targets THEN reg.pre.sifsOf[e] \cup reg.sifs
                          ELSE reg.pre.sifsOf[e]
        /\ Applied(sifsOf, reg.sifs, Targets) = sifsOf

\* apply without elements added a SIF to the one active element, which had
\* another SIF already, and left the other element's SIF set alone
AppliedToActiveElement ==
    /\ reg.op = "Apply" /\ reg.omitted /\ reg.exc = "none"
    /\ \E e \in DOMAIN sifsOf, other \in DOMAIN sifsOf :
          /\ reg.pre.activeElements.objs = {e}
          /\ other # e
          /\ reg.pre.sifsOf[e] = {"W1"} /\ reg.sifs = {"B1"}
          /\ sifsOf[e] = {"W1", "B1"}
          /\ sifsOf[other] = {"W1"}

(***************************************************************************)
(* Properties of the active selections.                                    *)
(***************************************************************************)
\* the last operation activated a model other than the one active before it
Switched ==
    /\ reg.op = "Activate"
    /\ reg.pre.activeModel \in ModelObjects \ {reg.obj}

\* C21: active selections are per model and survive a context switch: after
\* a switch away from a model and back to it, the active point (section,
\* material, insulation, code, report) and the active elements are again
\* the ones selected while that model was active; and while a model is
\* active the selections are its own, never objects of another model.
SelectionsSurviveSwitch ==
    /\ Switched =>
          /\ \A k \in SelKinds : activeObject[k] = chosen[reg.obj].object[k]
          /\ activeElements.objs = chosen[reg.obj].elements.objs
    /\ activeModel \in ModelObjects =>
          /\ \A k \in SelKinds :
                activeObject[k] \in {None} \cup Values(store[activeModel][k])
          /\ activeElements.objs \subseteq Values(store[activeModel]["elements"])

====
